---------------------------- MODULE Spec2Model ----------------------------
(* Model of src/handler.py: the Vimeo paginated fetcher                     *)
(* (VimeoVideos.pull_videos) with its rate-limit retry policy, and the      *)
(* entry point extract_vimeo that runs it and transforms the accumulator.   *)
(*                                                                          *)
(* Encodings.                                                               *)
(*  - A URL is the index of the page it addresses in the server's chain of  *)
(*    pages; 0 stands for None / JSON null.                                 *)
(*  - A modification timestamp is a natural number ordered as the strings   *)
(*    are; 0 is the empty string, which no video of the API carries but     *)
(*    which the caller may pass as cutoff.                                  *)
(*  - The cutoff is <<>> (None: the event has no modifiedAfter) or <<c>>.   *)
(*  - Durations are whole seconds.  A parsable X-RateLimit-Reset header is  *)
(*    given by secs, the reset time minus the clock reading of line 83.     *)
EXTENDS Integers, Sequences, FiniteSets, TLC

\* ----------------------------------------------------------------- bounds
MaxPages == 2

MaxRecords == 2

MaxT == 2

MaxElapsed == 1

MaxBatch == 3

MaxUriLen == 2

MaxPics == 2

\* ------------------------------------------------------ program constants
max_retries == 5

DefaultSleep == 5

VARIABLES
    pages,           \* the server's chain of pages: pages[p] is the data of page p
    modified_after,  \* self.modified_after
    videos,          \* self.videos
    retried,         \* self.retried
    url,             \* the url argument of the innermost pull_videos activation
    pc,              \* "start", "request", "transform", "done" or "fatal"
    depth,           \* number of pull_videos activations started and not finished
    requests,        \* number of session.get calls made
    response,        \* the response of the latest session.get
    sleeps,          \* number of time.sleep calls that returned
    slept,           \* duration of the latest time.sleep call that returned
    got429,          \* got429[p]: number of 429 responses received for page p
    log,             \* the message given to logger.fatal, if any
    exitCode,        \* status given to sys.exit, 0 while it was not called
    returned,        \* whether extract_vimeo returned
    result,          \* the value extract_vimeo returned
    other            \* the state of a second, suspended invocation, if any

vars == <<pages, modified_after, videos, retried, url, pc, depth, requests,
          response, sleeps, slept, got429, log, exitCode, returned, result,
          other>>

\* ------------------------------------------------------------ the server
Times == 1..MaxT

Digits == <<"1", "2", "3", "4", "5", "6", "7", "8", "9">>

\* uri of the video with identifier i: "/videos/<i>", one string per segment
\* separator or segment character.
UriOf(i) == <<"/", "v", "/", Digits[i]>>

\* pictures.sizes of the videos of the chain: the three sizes the transformer
\* files, one descriptor {width, height, link} each.
StdPictures ==
    <<[width |-> 1280, height |-> 720, link |-> "p"],
      [width |-> 640, height |-> 360, link |-> "q"],
      [width |-> 295, height |-> 166, link |-> "r"]>>

RECURSIVE SumTo(_, _)
SumTo(lens, p) == IF p = 0 THEN 0 ELSE lens[p] + SumTo(lens, p - 1)

\* The chain whose pages have the lengths lens and whose records, numbered in
\* page order, carry the modification times times.
Chain(lens, times) ==
    [p \in 1..Len(lens) |->
        [i \in 1..lens[p] |->
            [id |-> SumTo(lens, p - 1) + i,
             name |-> SumTo(lens, p - 1) + i,
             modified_time |-> times[SumTo(lens, p - 1) + i],
             uri |-> UriOf(SumTo(lens, p - 1) + i),
             pictures |-> StdPictures]]]

Chains ==
    { Chain(lens, times) :
        <<lens, times>> \in
            UNION { UNION { { <<l, t>> : l \in { x \in [1..m -> 0..n] : SumTo(x, m) = n },
                                        t \in [1..n -> Times] }
                            : m \in 1..MaxPages }
                    : n \in 0..MaxRecords } }

\* paging.next of page p: the next page of the chain, null on the last one.
NextOf(p) == IF p < Len(pages) THEN p + 1 ELSE 0

Cutoffs == {<<>>} \cup { <<c>> : c \in 0..MaxT }

OtherStatuses == {404, 500}

\* The X-RateLimit-Reset header of a 429 response: absent, not in the format
\* '%Y-%m-%dT%H:%M:%S%z', or a timestamp secs seconds after the clock reading
\* of line 83.
ResetHeaders ==
    {[kind |-> "none", secs |-> 0], [kind |-> "garbage", secs |-> 0]}
        \cup { [kind |-> "time", secs |-> s] : s \in {-1, 0, 3} }

NoHeader == [kind |-> "none", secs |-> 0]

NoResponse == [status |-> 0, reset |-> NoHeader]

NoLog == [kind |-> "none", url |-> 0, code |-> 0]

\* ----------------------------------------------------------- pull_videos
\* Python truthiness of self.modified_after: None and '' are false.
Truthy(m) == m # <<>> /\ m[1] # 0

\* Kept with >= for >: a record modified exactly at the cutoff is kept.
KeptAtLeast(data) ==
    IF Truthy(modified_after)
    THEN SelectSeq(data, LAMBDA v : v.modified_time >= modified_after[1])
    ELSE data

\* Kept without the test of line 61: the cutoff is ignored.
KeptAll(data) == data

\* The records of a page's data that lines 61-65 append to self.videos.
Kept(data) ==
    IF Truthy(modified_after)
    THEN SelectSeq(data, LAMBDA v : v.modified_time > modified_after[1])
    ELSE data

\* Exhausted with the bound reached one 429 early.
ExhaustedEarly(n) == n >= max_retries - 1

\* Exhausted with > for >=.
ExhaustedLate(n) == n > max_retries

\* Exhausted with the test of line 77 left out.
ExhaustedNever(n) == FALSE

\* Line 77: the retry budget is used up.
Exhausted(n) == n >= max_retries

\* RetryUrl with the url argument left out: the retry starts over at page 1.
RetryFirstPage(u) == 1

\* Line 90: the url of the call made after the sleep.
RetryUrl(u) == u

\* datetime.strptime(...).utcnow(): utcnow is a classmethod, so the value is
\* the clock reading at the call, whatever timestamp was parsed.
ClassUtcNow(parsed, clock) == clock

\* Backoff with a default sleep before the header is looked at as well.
BackoffTwice(hdr, elapsed) ==
    IF hdr.kind # "time"
    THEN <<DefaultSleep, DefaultSleep>>
    ELSE IF 0 - elapsed < 0 THEN <<DefaultSleep>> ELSE <<0 - elapsed>>

\* The sleeps of lines 80-87, as the sequence of durations time.sleep returned
\* from.  The clock reading of datetime.utcnow() on line 83 is the origin of
\* time: the header's timestamp is hdr.secs and the reading taken on line 82,
\* elapsed seconds earlier, is -elapsed.  strptime raises on a missing or
\* malformed header and time.sleep raises on a negative duration; both land
\* in the except clause.
Backoff(hdr, elapsed) ==
    IF hdr.kind # "time"
    THEN <<DefaultSleep>>
    ELSE LET reset_time == ClassUtcNow(hdr.secs, 0 - elapsed)
             offset     == reset_time - 0
         IN  IF offset < 0 THEN <<DefaultSleep>> ELSE <<offset>>

\* ---------------------------------------------------------- extract_vimeo
RECURSIVE LastSlash(_, _)
LastSlash(uri, i) ==
    IF i = 0 THEN 0 ELSE IF uri[i] = "/" THEN i ELSE LastSlash(uri, i - 1)

\* v.get('uri', '').rsplit('/', 1)[1] raises IndexError iff uri has no '/'.
HasSourceId(v) == LastSlash(v.uri, Len(v.uri)) # 0

\* SourceIdOf with split for rsplit: what follows the first '/'.
SourceIdAfterFirst(v) ==
    SubSeq(v.uri,
           (CHOOSE i \in 1..Len(v.uri) :
               v.uri[i] = "/" /\ \A j \in 1..(i - 1) : v.uri[j] # "/") + 1,
           Len(v.uri))

\* Line 116: what follows the last '/' of the uri.
SourceIdOf(v) == SubSeq(v.uri, LastSlash(v.uri, Len(v.uri)) + 1, Len(v.uri))

\* The dict d after d[k] = link.
DictSet(d, k, link) ==
    [x \in (DOMAIN d) \cup {k} |-> IF x = k THEN link ELSE d[x]]

\* PutPic with a tier filled once only: the first descriptor of a tier wins.
PutPicKeepFirst(th, pic) ==
    LET Keep(d, k) == IF k \in DOMAIN d THEN d ELSE DictSet(d, k, pic.link)
    IN  IF pic.width = 1280 \/ pic.height = 720
        THEN Keep(Keep(th, "source"), "large")
        ELSE IF pic.width = 640 \/ pic.height = 360
             THEN Keep(th, "medium")
             ELSE IF pic.width = 295 \/ pic.height = 166
                  THEN Keep(th, "small")
                  ELSE th

\* Lines 128-134: video['Thumbnails'] after one descriptor of the loop.
PutPic(th, pic) ==
    IF pic.width = 1280 \/ pic.height = 720
    THEN DictSet(DictSet(th, "source", pic.link), "large", pic.link)
    ELSE IF pic.width = 640 \/ pic.height = 360
         THEN DictSet(th, "medium", pic.link)
         ELSE IF pic.width = 295 \/ pic.height = 166
              THEN DictSet(th, "small", pic.link)
              ELSE th

\* Lines 127-134: video['Thumbnails'] after the descriptors sizes, from th.
RECURSIVE Thumbnails(_, _)
Thumbnails(sizes, th) ==
    IF sizes = <<>> THEN th
    ELSE Thumbnails(Tail(sizes), PutPic(th, Head(sizes)))

\* The output record of lines 103-141.  ThumbnailSource, a key set on line
\* 129 only, is <<>> when absent and <<link>> when present.
OutputRecord(v) ==
    LET th == Thumbnails(v.pictures, <<>>)
    IN  [Title |-> v.name,
         SourceId |-> SourceIdOf(v),
         OriginalFilename |-> <<"Vimeo">> \o SourceIdOf(v),
         DataSource |-> "Vimeo",
         ThumbnailSource |->
             IF "large" \in DOMAIN th THEN <<th["large"]>> ELSE <<>>,
         Thumbnails |-> th]

\* Transform with break for continue: a record without source id ends the
\* loop.
RECURSIVE TransformUntilBad(_)
TransformUntilBad(vs) ==
    IF vs = <<>> THEN <<>>
    ELSE IF HasSourceId(Head(vs))
         THEN <<OutputRecord(Head(vs))>> \o TransformUntilBad(Tail(vs))
         ELSE <<>>

RECURSIVE Transform(_)
Transform(vs) ==
    IF vs = <<>> THEN <<>>
    ELSE IF HasSourceId(Head(vs))
         THEN <<OutputRecord(Head(vs))>> \o Transform(Tail(vs))
         ELSE Transform(Tail(vs))

\* Fatal without sys.exit: the message is logged, pull_videos returns and
\* extract_vimeo transforms what was collected.
FatalReturns(msg) ==
    /\ log' = msg
    /\ exitCode' = 0
    /\ pc' = "fatal"
    /\ returned' = TRUE
    /\ result' = Transform(videos)

\* fatal(msg): logger.fatal(msg); sys.exit(1).  SystemExit is no Exception, so
\* nothing in the module catches it: every activation and extract_vimeo are
\* abandoned and nothing is returned.
Fatal(msg) ==
    /\ log' = msg
    /\ exitCode' = 1
    /\ pc' = "fatal"
    /\ UNCHANGED <<returned, result>>

\* ------------------------------------------------------------------ Init
Init ==
    /\ pages \in Chains
    /\ modified_after \in Cutoffs
    /\ videos = <<>>
    /\ retried = 0
    /\ url = 0
    /\ pc = "start"
    /\ depth = 0
    /\ requests = 0
    /\ response = NoResponse
    /\ sleeps = 0
    /\ slept = 0
    /\ got429 = [p \in 1..Len(pages) |-> 0]
    /\ log = NoLog
    /\ exitCode = 0
    /\ returned = FALSE
    /\ result = <<>>
    /\ other = <<>>

\* extract_vimeo calls vv.pull_videos(): url is None and becomes page 1's.
Start ==
    /\ pc = "start"
    /\ url' = 1
    /\ depth' = 1
    /\ pc' = "request"
    /\ UNCHANGED <<pages, modified_after, videos, retried, requests, response,
                   sleeps, slept, got429, log, exitCode, returned, result,
                   other>>

\* The request is answered 200, lines 57-70.  With a next page the activation
\* calls pull_videos on it; without, every activation returns and
\* extract_vimeo transforms self.videos and returns, lines 101-144.
Get200 ==
    /\ pc = "request"
    /\ requests' = requests + 1
    /\ response' = [status |-> 200, reset |-> NoHeader]
    /\ videos' = videos \o Kept(pages[url])
    /\ IF NextOf(url) # 0
       THEN /\ url' = NextOf(url)
            /\ depth' = depth + 1
            /\ pc' = "request"
            /\ UNCHANGED <<returned, result>>
       ELSE /\ depth' = 0
            /\ pc' = "done"
            /\ returned' = TRUE
            /\ result' = Transform(videos')
            /\ UNCHANGED url
    /\ UNCHANGED <<pages, modified_after, retried, sleeps, slept, got429,
                   log, exitCode, other>>

\* Get429 with the sleep of lines 80-87 ahead of the test of line 77.
Get429SleepsFirst ==
    /\ pc = "request"
    /\ requests' = requests + 1
    /\ got429' = [got429 EXCEPT ![url] = @ + 1]
    /\ retried' = retried + 1
    /\ \E hdr \in ResetHeaders, elapsed \in 0..MaxElapsed :
         /\ response' = [status |-> 429, reset |-> hdr]
         /\ sleeps' = sleeps + Len(Backoff(hdr, elapsed))
         /\ slept' = Backoff(hdr, elapsed)[Len(Backoff(hdr, elapsed))]
         /\ IF Exhausted(retried')
            THEN /\ Fatal([kind |-> "retries", url |-> 0, code |-> retried'])
                 /\ UNCHANGED <<depth, url>>
            ELSE /\ url' = RetryUrl(url)
                 /\ depth' = depth + 1
                 /\ pc' = "request"
                 /\ UNCHANGED <<log, exitCode, returned, result>>
    /\ UNCHANGED <<pages, modified_after, videos, other>>

\* The request is answered 429, lines 72-90.
Get429 ==
    /\ pc = "request"
    /\ requests' = requests + 1
    /\ got429' = [got429 EXCEPT ![url] = @ + 1]
    /\ retried' = retried + 1
    /\ \E hdr \in ResetHeaders, elapsed \in 0..MaxElapsed :
         /\ response' = [status |-> 429, reset |-> hdr]
         /\ IF Exhausted(retried')
            THEN /\ Fatal([kind |-> "retries", url |-> 0, code |-> retried'])
                 /\ UNCHANGED <<sleeps, slept, depth, url>>
            ELSE /\ sleeps' = sleeps + Len(Backoff(hdr, elapsed))
                 /\ slept' = Backoff(hdr, elapsed)[Len(Backoff(hdr, elapsed))]
                 /\ url' = RetryUrl(url)
                 /\ depth' = depth + 1
                 /\ pc' = "request"
                 /\ UNCHANGED <<log, exitCode, returned, result>>
    /\ UNCHANGED <<pages, modified_after, videos, other>>

\* GetOther with every status but 200 taken for a transient error.
GetOtherRetried ==
    /\ pc = "request"
    /\ requests' = requests + 1
    /\ retried' = retried + 1
    /\ \E s \in OtherStatuses :
         /\ response' = [status |-> s, reset |-> NoHeader]
         /\ IF Exhausted(retried')
            THEN /\ Fatal([kind |-> "retries", url |-> 0, code |-> retried'])
                 /\ UNCHANGED <<sleeps, slept, depth>>
            ELSE /\ sleeps' = sleeps + 1
                 /\ slept' = DefaultSleep
                 /\ depth' = depth + 1
                 /\ pc' = "request"
                 /\ UNCHANGED <<log, exitCode, returned, result>>
    /\ UNCHANGED <<pages, modified_after, videos, url, got429, other>>

\* The request is answered with any other status, lines 92-94.
GetOther ==
    /\ pc = "request"
    /\ requests' = requests + 1
    /\ \E s \in OtherStatuses :
         /\ response' = [status |-> s, reset |-> NoHeader]
         /\ Fatal([kind |-> "status", url |-> url, code |-> s])
    /\ UNCHANGED <<pages, modified_after, videos, retried, url, depth, sleeps,
                   slept, got429, other>>

Next == Start \/ Get200 \/ Get429 \/ GetOther

Spec == Init /\ [][Next]_vars

\* ------------------------------------------------ two invocations
\* What an invocation owns: the attributes __init__ sets on its VimeoVideos
\* object, the position and locals of its pull_videos activations, and what
\* it did and returned.
Own ==
    [modified_after |-> modified_after, videos |-> videos,
     retried |-> retried, url |-> url, pc |-> pc, depth |-> depth,
     requests |-> requests, response |-> response, sleeps |-> sleeps,
     slept |-> slept, got429 |-> got429, log |-> log, exitCode |-> exitCode,
     returned |-> returned, result |-> result]

\* An invocation of extract_vimeo with the cutoff m, after construction.
Fresh(m, chain) ==
    [modified_after |-> m, videos |-> <<>>, retried |-> 0, url |-> 0,
     pc |-> "start", depth |-> 0, requests |-> 0, response |-> NoResponse,
     sleeps |-> 0, slept |-> 0, got429 |-> [p \in 1..Len(chain) |-> 0],
     log |-> NoLog, exitCode |-> 0, returned |-> FALSE, result |-> <<>>]

\* An account of two pages of one video each.
TwoPages == Chain(<<1, 1>>, <<1, 2>>)

\* Two invocations of the same account, the suspended one with a cutoff.
InitC ==
    /\ pages = TwoPages
    /\ modified_after \in Cutoffs
    /\ videos = <<>>
    /\ retried = 0
    /\ url = 0
    /\ pc = "start"
    /\ depth = 0
    /\ requests = 0
    /\ response = NoResponse
    /\ sleeps = 0
    /\ slept = 0
    /\ got429 = [p \in 1..Len(pages) |-> 0]
    /\ log = NoLog
    /\ exitCode = 0
    /\ returned = FALSE
    /\ result = <<>>
    /\ other = Fresh(<<1>>, pages)

\* Switch with videos an attribute of the class: one list for all objects.
SwitchSharedVideos ==
    /\ other # <<>>
    /\ other' = Own
    /\ modified_after' = other.modified_after
    /\ videos' = videos
    /\ retried' = other.retried
    /\ url' = other.url
    /\ pc' = other.pc
    /\ depth' = other.depth
    /\ requests' = other.requests
    /\ response' = other.response
    /\ sleeps' = other.sleeps
    /\ slept' = other.slept
    /\ got429' = other.got429
    /\ log' = other.log
    /\ exitCode' = other.exitCode
    /\ returned' = other.returned
    /\ result' = other.result
    /\ UNCHANGED pages

\* The running invocation is suspended and the other one goes on: each finds
\* what it owns as it left it.
Switch ==
    /\ other # <<>>
    /\ other' = Own
    /\ modified_after' = other.modified_after
    /\ videos' = other.videos
    /\ retried' = other.retried
    /\ url' = other.url
    /\ pc' = other.pc
    /\ depth' = other.depth
    /\ requests' = other.requests
    /\ response' = other.response
    /\ sleeps' = other.sleeps
    /\ slept' = other.slept
    /\ got429' = other.got429
    /\ log' = other.log
    /\ exitCode' = other.exitCode
    /\ returned' = other.returned
    /\ result' = other.result
    /\ UNCHANGED pages

NextC == Start \/ Get200 \/ Get429 \/ GetOther \/ Switch

SpecC == InitC /\ [][NextC]_vars

\* ------------------------------------------------- the transformer alone
\* The characters of a uri: the separator and another one.
Chars == {"/", "a"}

SeqsUpTo(S, n) == UNION { [1..k -> S] : k \in 0..n }

\* Picture descriptors: the widths and heights lines 128-133 look for, and one
\* they do not.
Pics ==
    [width : {1280, 640, 295, 100}, height : {720, 360, 166, 100},
     link : {"p", "q"}]

\* The raw record number i of a batch.
Raw(i, uri, pictures) ==
    [id |-> i, name |-> i, modified_time |-> 1, uri |-> uri,
     pictures |-> pictures]

\* The uris of the raw records of a batch.
Uris == SeqsUpTo(Chars, MaxUriLen)

\* pull_videos has returned, leaving any accumulator: a batch of records of
\* any uri, or a single record of any pictures.
InitT ==
    /\ pages = <<>>
    /\ modified_after = <<>>
    /\ \/ \E k \in 0..MaxBatch : \E us \in [1..k -> Uris] :
            videos = [i \in 1..k |-> Raw(i, us[i], StdPictures)]
       \/ \E k \in 0..MaxPics : \E ps \in [1..k -> Pics] :
            videos = <<Raw(1, UriOf(1), ps)>>
    /\ retried = 0
    /\ url = 1
    /\ pc = "transform"
    /\ depth = 0
    /\ requests = 1
    /\ response = [status |-> 200, reset |-> NoHeader]
    /\ sleeps = 0
    /\ slept = 0
    /\ got429 = <<>>
    /\ log = NoLog
    /\ exitCode = 0
    /\ returned = FALSE
    /\ result = <<>>
    /\ other = <<>>

\* Lines 101-144 of extract_vimeo.
TransformBatch ==
    /\ pc = "transform"
    /\ result' = Transform(videos)
    /\ returned' = TRUE
    /\ pc' = "done"
    /\ UNCHANGED <<pages, modified_after, videos, retried, url, depth,
                   requests, response, sleeps, slept, got429, log, exitCode,
                   other>>

NextT == TransformBatch

SpecT == InitT /\ [][NextT]_vars

\* ================================================================ claims
\* Total number of 429 responses received since construction.
Total429 == SumTo(got429, Len(pages))

\* A record passes the cutoff filter as the specification words it: no cutoff
\* is set, or its modification timestamp is strictly greater than the cutoff.
PassesCutoff(v) == modified_after = <<>> \/ v.modified_time > modified_after[1]

\* The records of pages 1..p that pass the cutoff filter, in page order and
\* then within-page order.
RECURSIVE ExpectedUpTo(_)
ExpectedUpTo(p) ==
    IF p = 0 THEN <<>>
    ELSE ExpectedUpTo(p - 1) \o SelectSeq(pages[p], PassesCutoff)

\* The step is a request answered with status s.
Answered(s) == pc = "request" /\ requests' = requests + 1 /\ response'.status = s

\* C1: when every page answered 200, with 429 responses below the budget
\* interleaved, the accumulator pull_videos leaves is the concatenation, in
\* page order and then within-page order, of each page's data restricted to
\* the records that pass the cutoff filter; and while the fetch runs it is that
\* concatenation over the pages already answered.
C1_AccumulatorIsFilteredConcatenation ==
    /\ pc = "done" => videos = ExpectedUpTo(Len(pages))
    /\ pc = "request" => videos = ExpectedUpTo(url - 1)

\* A fetch of two pages completed after a 429, the cutoff dropping one of the
\* two records.
C1_Witness ==
    /\ pc = "done"
    /\ Len(pages) = 2
    /\ Total429 >= 1
    /\ modified_after # <<>>
    /\ Len(videos) = 1
    /\ Len(pages[1]) + Len(pages[2]) = 2

\* C2: when a cutoff C is set, every record in the accumulator has a
\* modification timestamp strictly greater than C, in every reachable state.
C2_AccumulatorAboveCutoff ==
    modified_after # <<>> =>
        \A i \in 1..Len(videos) : videos[i].modified_time > modified_after[1]

\* A page holding a record at the cutoff and a record above it was answered:
\* only the second is in the accumulator.
C2_Witness ==
    /\ modified_after # <<>>
    /\ url = 1
    /\ response.status = 200
    /\ Len(pages[1]) = 2
    /\ pages[1][1].modified_time = modified_after[1]
    /\ videos = <<pages[1][2]>>

\* C3 as stated: after exactly max_retries consecutive 429 responses for the
\* same page the fetch has not failed, so that the success that follows can
\* complete it.
C3_Original ==
    (\E p \in DOMAIN got429 : got429[p] = max_retries) => pc # "fatal"

\* C3 amended: after exactly max_retries - 1 consecutive 429 responses for the
\* same page, the only 429 responses of the invocation, the fetch has not
\* failed for retry exhaustion, and the 200 response that follows for that
\* page leaves the accumulator equal to the records accumulated before the 429
\* responses followed by the data of that page that pass the cutoff filter.
C3_Amended ==
    /\ [](\A p \in DOMAIN got429 :
            (got429[p] = max_retries - 1 /\ Total429 = max_retries - 1)
                => log.kind # "retries")
    /\ [][(Answered(200) /\ got429[url] = max_retries - 1
                         /\ Total429 = max_retries - 1)
            => /\ pc' # "fatal"
               /\ videos = ExpectedUpTo(url - 1)
               /\ videos' = ExpectedUpTo(url - 1)
                              \o SelectSeq(pages[url], PassesCutoff)]_vars

\* The second page was answered 200 after max_retries - 1 responses 429, and
\* the fetch completed with the records of both pages.
C3_Witness ==
    /\ pc = "done"
    /\ Len(pages) = 2
    /\ got429[2] = max_retries - 1
    /\ Len(pages[1]) = 1
    /\ Len(pages[2]) = 1
    /\ videos = pages[1] \o pages[2]

\* C4: the retry counter counts every 429 response received since
\* construction, whatever the page and whatever 200 responses came between,
\* and the invocation has failed for retry exhaustion exactly when that total
\* has reached max_retries.
C4_SharedRetryBudget ==
    /\ retried = Total429
    /\ Total429 <= max_retries
    /\ (pc = "fatal" /\ log.kind = "retries") <=> Total429 = max_retries

\* Retry exhaustion with the 429 responses spread over two pages and a 200
\* response between them.
C4_Witness ==
    /\ pc = "fatal"
    /\ log.kind = "retries"
    /\ Len(pages) = 2
    /\ got429[1] >= 1
    /\ got429[2] >= 1
    /\ videos # <<>>

\* No record is in the accumulator twice.
NoDuplicate ==
    \A i, j \in 1..Len(videos) : videos[i].id = videos[j].id => i = j

\* C5: a 429 response leaves the accumulator and the cursor unchanged, so the
\* next request goes to the same URL, and no record is ever appended twice.
C5_RetryKeepsAccumulatorAndCursor ==
    /\ [][Answered(429) => (videos' = videos /\ url' = url)]_vars
    /\ []NoDuplicate

\* The second page was answered 429 and then 200 after the first page had
\* put a record in the accumulator.
C5_Witness ==
    /\ url = 2
    /\ got429[2] >= 1
    /\ response.status = 200
    /\ Len(pages[1]) = 1
    /\ Len(videos) = 2

\* C6: a response whose status is neither 200 nor 429 makes the invocation
\* fail at once: the step sleeps nothing, leaves the retry counter alone and
\* logs the URL and the status; after a failure no request and no sleep
\* happens.
C6_OtherStatusIsFatal ==
    /\ [][(pc = "request" /\ requests' = requests + 1
                          /\ response'.status \notin {200, 429})
            => /\ pc' = "fatal"
               /\ exitCode' = 1
               /\ sleeps' = sleeps
               /\ retried' = retried
               /\ log' = [kind |-> "status", url |-> url,
                          code |-> response'.status]]_vars
    /\ [][pc = "fatal" => (requests' = requests /\ sleeps' = sleeps)]_vars

\* A status 500 on the second page after some 429 responses.
C6_Witness ==
    /\ pc = "fatal"
    /\ log = [kind |-> "status", url |-> 2, code |-> 500]
    /\ retried >= 1

\* C7: when the fetch ends fatally, extract_vimeo returns nothing, whatever
\* the accumulator holds; the process exits with status 1.
C7_FatalReturnsNothing ==
    pc = "fatal" => (~returned /\ result = <<>> /\ exitCode = 1)

\* Retry exhaustion on the second page, the first page's records collected.
C7_Witness ==
    /\ pc = "fatal"
    /\ log.kind = "retries"
    /\ url = 2
    /\ Len(videos) >= 1

\* C8: after a 429 response below the retry budget whose X-RateLimit-Reset
\* header parses to a timestamp not before the clock reading of line 83, the
\* duration slept is that timestamp minus that clock reading.
C8_SleepsUntilReset ==
    (pc = "request" /\ response.status = 429
        /\ response.reset.kind = "time" /\ response.reset.secs >= 0)
            => slept = response.reset.secs

\* C9: on a 429 response below the retry budget whose X-RateLimit-Reset header
\* is missing or unparsable, the fetcher sleeps DefaultSleep seconds, once,
\* and goes on to request the same URL; it does not fail.
C9_FallbackSleep ==
    [][(Answered(429) /\ response'.reset.kind \in {"none", "garbage"}
                      /\ retried' < max_retries)
         => /\ sleeps' = sleeps + 1
            /\ slept' = DefaultSleep
            /\ pc' = "request"
            /\ url' = url
            /\ exitCode' = 0]_vars

\* A 429 response with a malformed header was slept on and is to be retried.
C9_Witness ==
    /\ pc = "request"
    /\ response = [status |-> 429, reset |-> [kind |-> "garbage", secs |-> 0]]
    /\ sleeps = 1
    /\ slept = DefaultSleep

\* The fetch ended.
Terminated == pc \in {"done", "fatal"}

\* Number of steps taken: the requests made, and the call of pull_videos.
Progress == requests + (IF pc = "start" THEN 0 ELSE 1)

NoSlash(uri) == \A k \in 1..Len(uri) : uri[k] # "/"

\* The output holds a record made from the raw record v.
InOutput(v) == \E j \in 1..Len(result) : result[j].Title = v.name

\* C11: after the transformer ran on a batch, a raw record whose uri is
\* empty or contains no '/' is absent from the output, and every other record
\* of the batch is present in it, wherever the bad records stand; the batch is
\* not aborted: extract_vimeo returns.
C11_BadUriSkippedSiblingsKept ==
    pc = "done" =>
        /\ returned
        /\ \A i \in 1..Len(videos) :
              NoSlash(videos[i].uri) <=> ~InOutput(videos[i])

\* A batch of three whose middle record has an empty uri: the output holds
\* the first and the third.
C11_Witness ==
    /\ pc = "done"
    /\ Len(videos) = 3
    /\ videos[1].uri = <<"/", "a">>
    /\ videos[2].uri = <<>>
    /\ videos[3].uri = <<"a", "/">>
    /\ Len(result) = 2
    /\ result[1].Title = 1
    /\ result[2].Title = 3

\* The tier a picture descriptor is filed under, "none" when it is ignored.
Tier(pic) ==
    IF pic.width = 1280 \/ pic.height = 720 THEN "large"
    ELSE IF pic.width = 640 \/ pic.height = 360 THEN "medium"
    ELSE IF pic.width = 295 \/ pic.height = 166 THEN "small"
    ELSE "none"

\* The positions of the descriptors of sizes filed under tier t.
Matching(sizes, t) == { k \in 1..Len(sizes) : Tier(sizes[k]) = t }

Largest(S) == CHOOSE k \in S : \A m \in S : m <= k

\* The mapping th is the classification of the descriptors sizes: a tier is a
\* key exactly when a descriptor matches it, its link is that of the last
\* such descriptor, and source goes with large.
Classified(sizes, th) ==
    /\ DOMAIN th \subseteq {"source", "large", "medium", "small"}
    /\ \A t \in {"large", "medium", "small"} :
          /\ t \in DOMAIN th <=> Matching(sizes, t) # {}
          /\ t \in DOMAIN th => th[t] = sizes[Largest(Matching(sizes, t))].link
    /\ "source" \in DOMAIN th <=> "large" \in DOMAIN th
    /\ "source" \in DOMAIN th => th["source"] = th["large"]

\* C12: the thumbnails of every output record are the classification of the
\* raw record's picture descriptors: large (and source) for width 1280 or
\* height 720, else medium for 640 or 360, else small for 295 or 166, else
\* ignored, the last descriptor of a tier giving its link, and the mapping
\* empty when no descriptor matches.
C12_ThumbnailClassification ==
    pc = "done" =>
        \A j \in 1..Len(result) :
            \A i \in 1..Len(videos) :
                videos[i].name = result[j].Title =>
                    /\ Classified(videos[i].pictures, result[j].Thumbnails)
                    /\ Matching(videos[i].pictures, "large") = {} <=>
                            result[j].ThumbnailSource = <<>>
                    /\ (\A k \in 1..Len(videos[i].pictures) :
                            Tier(videos[i].pictures[k]) = "none")
                         => DOMAIN result[j].Thumbnails = {}

\* Two descriptors of the large tier, the first by its width and the second
\* by its height: the link of the second is stored.
C12_Witness ==
    /\ pc = "done"
    /\ Len(videos) = 1
    /\ videos[1].pictures =
          <<[width |-> 1280, height |-> 360, link |-> "p"],
            [width |-> 100, height |-> 720, link |-> "q"]>>
    /\ DOMAIN result[1].Thumbnails = {"source", "large"}
    /\ result[1].Thumbnails["large"] = "q"

\* The positions of the raw records whose uri has a '/', in order.
Resolvable ==
    SelectSeq([i \in 1..Len(videos) |-> i], LAMBDA i : ~NoSlash(videos[i].uri))

\* The last path segment of a uri that has a '/'.
LastSegment(uri) ==
    CHOOSE seg \in { SubSeq(uri, k + 1, Len(uri)) : k \in 1..Len(uri) } :
        /\ NoSlash(seg)
        /\ uri[Len(uri) - Len(seg)] = "/"

\* C13: the output holds exactly one record for each raw record whose source
\* id resolves, in the order of the raw records; its SourceId is the last path
\* segment of the uri and its OriginalFilename is 'Vimeo' followed by that
\* source id, so equal uris give equal filenames.
C13_OneOutputPerResolvableRecord ==
    pc = "done" =>
        /\ Len(result) = Len(Resolvable)
        /\ \A j \in 1..Len(result) :
              /\ result[j].Title = videos[Resolvable[j]].name
              /\ result[j].SourceId = LastSegment(videos[Resolvable[j]].uri)
              /\ result[j].OriginalFilename = <<"Vimeo">> \o result[j].SourceId
        /\ \A j, k \in 1..Len(result) :
              videos[Resolvable[j]].uri = videos[Resolvable[k]].uri
                  => result[j].OriginalFilename = result[k].OriginalFilename

\* The same uri twice around a record without source id: two output records
\* with the same filename.
C13_Witness ==
    /\ pc = "done"
    /\ Len(videos) = 3
    /\ videos[1].uri = <<"/", "a">>
    /\ videos[2].uri = <<"a">>
    /\ videos[3].uri = <<"/", "a">>
    /\ Len(result) = 2
    /\ result[1].OriginalFilename = <<"Vimeo", "a">>
    /\ result[2].OriginalFilename = <<"Vimeo", "a">>

\* C14: a 429 response below the budget is followed by one sleep, over before
\* the same URL is requested again, so that at every request one sleep has
\* returned for each 429 response received; the 429 response that exhausts the
\* budget is followed by no sleep and no request.
C14_OneSleepBeforeRetry ==
    /\ [][(Answered(429) /\ retried' < max_retries)
            => (sleeps' = sleeps + 1 /\ pc' = "request" /\ url' = url)]_vars
    /\ [][(Answered(429) /\ retried' >= max_retries)
            => (sleeps' = sleeps /\ slept' = slept /\ pc' = "fatal")]_vars
    /\ [](pc = "request" => sleeps = Total429)
    /\ []((pc = "fatal" /\ log.kind = "retries")
            => (sleeps = Total429 - 1 /\ ~ENABLED Next))

\* Retry exhaustion on the first page: max_retries requests and one sleep
\* fewer.
C14_Witness ==
    /\ pc = "fatal"
    /\ log.kind = "retries"
    /\ url = 1
    /\ requests = max_retries
    /\ sleeps = max_retries - 1

\* The records of pages 1..p that pass the cutoff filter of the cutoff m.
RECURSIVE ExpectedFor(_, _)
ExpectedFor(m, p) ==
    IF p = 0 THEN <<>>
    ELSE ExpectedFor(m, p - 1)
            \o SelectSeq(pages[p],
                         LAMBDA v : m = <<>> \/ v.modified_time > m[1])

\* The invocation whose state is s is where it would be had it run alone and
\* got the same responses: its retry counter counts its own 429 responses and
\* it failed for retry exhaustion exactly when they were max_retries; its
\* requests are its own; its accumulator holds the records of the pages
\* answered to it that pass its own cutoff; its result has one record for
\* each of them.
AsAlone(s) ==
    /\ s.retried = SumTo(s.got429, Len(pages))
    /\ (s.pc = "fatal" /\ s.log.kind = "retries") <=> s.retried = max_retries
    /\ s.pc = "request" =>
          /\ s.videos = ExpectedFor(s.modified_after, s.url - 1)
          /\ s.requests = s.url - 1 + s.retried
          /\ s.sleeps = s.retried
    /\ s.pc = "fatal" =>
          /\ s.videos = ExpectedFor(s.modified_after, s.url - 1)
          /\ ~s.returned
    /\ s.pc = "done" =>
          /\ s.videos = ExpectedFor(s.modified_after, Len(pages))
          /\ Len(s.result) = Len(s.videos)
          /\ \A j \in 1..Len(s.result) : s.result[j].Title = s.videos[j].name

\* C15: two invocations whose steps interleave in any order do not
\* interfere: each is at every moment where it would be alone, and a step of
\* one changes nothing the other owns.
C15_InvocationsIndependent ==
    /\ [](AsAlone(Own) /\ AsAlone(other))
    /\ [][other' # other => (other' = Own /\ Own' = other)]_vars

\* One invocation completed with both records after two 429 responses while
\* the other, with a cutoff, failed for retry exhaustion on the second page.
C15_Witness ==
    /\ pc = "done"
    /\ retried = 2
    /\ Len(videos) = 2
    /\ other.pc = "fatal"
    /\ other.log.kind = "retries"
    /\ other.url = 2
    /\ other.videos = <<>>

\* C16: following a page or retrying adds no pull_videos activation, so the
\* number of activations started and not finished is bounded whatever the
\* number of pages followed and of retries made.
C16_NoStackGrowth ==
    [][(Answered(200) \/ Answered(429)) => depth' <= depth]_vars

\* C17: the retry counter stays within 0..max_retries, goes up by one on
\* every 429 response and is left alone by every other step; a request is made
\* only while it is below max_retries, so a completed fetch received at most
\* max_retries - 1 responses 429.
C17_RetryCounterInvariant ==
    /\ [](retried \in 0..max_retries)
    /\ [][retried' = IF Answered(429) THEN retried + 1 ELSE retried]_vars
    /\ [](pc = "request" => retried < max_retries)
    /\ [](pc = "done" => Total429 <= max_retries - 1)

\* A completed fetch of two pages, each answered 429 twice.
C17_Witness ==
    /\ pc = "done"
    /\ Len(pages) = 2
    /\ got429[1] = 2
    /\ got429[2] = 2
    /\ retried = max_retries - 1

\* C18: no duration slept is negative, and after a 429 response below the
\* budget whose reset timestamp is before the current time the fetcher has
\* slept the DefaultSleep seconds of the fallback.
C18_PastResetFallsBack ==
    /\ slept >= 0
    /\ (pc = "request" /\ response.status = 429
            /\ response.reset.kind = "time" /\ response.reset.secs < 0)
         => slept = DefaultSleep

=============================================================================
